---------------------------- MODULE Spec2Model ----------------------------
(***************************************************************************)
(* Listing Visual Matcher (src/app.py): a Streamlit script that is run     *)
(* from top to bottom once per operator interaction.  A state of the model *)
(* is the state between two script runs: the process environment, the      *)
(* session's st.session_state entries (auth_ok, match_map), the values the *)
(* browser holds for the widgets it displays, and what the last run drew.  *)
(* Every action is one operator interaction followed by the script run it  *)
(* triggers; a run interrupted by st.rerun() is followed by the Rerun      *)
(* action.                                                                 *)
(*                                                                         *)
(* Strings are sequences of one-character strings, so that str.strip() and *)
(* the other conversions are computed rather than assumed.                 *)
(***************************************************************************)
EXTENDS Integers, Sequences, FiniteSets, TLC

(***************************************************************************)
(* Bounds of the model.                                                    *)
(***************************************************************************)
\* The largest uploaded table has MaxRows rows (three pages of ten).
MaxRows == 21
\* The paginator is exercised alone on every row count up to MaxPaginateRows.
MaxPaginateRows == 45

(***************************************************************************)
(* Python values and conversions used by the script.                       *)
(***************************************************************************)
SP == " "

\* str.strip(): what lies between the first and the last character that is
\* not a blank
NonBlank(s) == {k \in 1..Len(s) : s[k] # SP}

Strip(s) ==
    IF NonBlank(s) = {} THEN <<>>
    ELSE SubSeq(s, CHOOSE k \in NonBlank(s) : \A j \in NonBlank(s) : k <= j,
                   CHOOSE k \in NonBlank(s) : \A j \in NonBlank(s) : k >= j)

\* characters of a string
Chars(s) == {s[k] : k \in 1..Len(s)}

\* A table cell as pandas.read_csv delivers it: a string, or NaN for an
\* empty field.
StrCell(s) == [k |-> "str", v |-> s]
NaN == [k |-> "nan", v |-> <<>>]

\* bool(x)
Truthy(c) ==
    CASE c.k = "str" -> c.v # <<>>
      [] c.k = "nan" -> TRUE

\* x or ""
PyOrEmpty(c) == IF Truthy(c) THEN c ELSE StrCell(<<>>)

\* str(x)
PyStr(c) ==
    CASE c.k = "str" -> c.v
      [] c.k = "nan" -> <<"n", "a", "n">>

\* str(row.get(col, "") or "").strip()
CellText(c) == Strip(PyStr(PyOrEmpty(c)))

(***************************************************************************)
(* URL builders.                                                           *)
(***************************************************************************)
MARKETPLACE_DOMAIN ==
    [it |-> "amazon.it", de |-> "amazon.de", fr |-> "amazon.fr",
     es |-> "amazon.es", uk |-> "amazon.co.uk", us |-> "amazon.com",
     nl |-> "amazon.nl", se |-> "amazon.se", pl |-> "amazon.pl"]

\* The marketplace selectbox is left on its default.
marketplace == "it"

build_amazon_dp_url(asin, mp) ==
    LET a == Strip(asin)
        domain == IF mp \in DOMAIN MARKETPLACE_DOMAIN
                  THEN MARKETPLACE_DOMAIN[mp] ELSE ""
    IN IF a = <<>> \/ domain = "" THEN <<>>
       ELSE <<"https://www.", domain, "/dp/">> \o a

keepa_image_to_cdn_url(image_id) ==
    LET img == Strip(image_id)
    IN IF img = <<>> THEN <<>>
       ELSE <<"https://m.media-amazon.com/images/I/">>
            \o (IF "." \notin Chars(img) THEN img \o <<".", "j", "p", "g">> ELSE img)

\* images_csv.split(",")[0]
Commas(s) == {k \in 1..Len(s) : s[k] = ","}

FirstField(s) ==
    IF Commas(s) = {} THEN s
    ELSE SubSeq(s, 1, (CHOOSE k \in Commas(s) : \A j \in Commas(s) : k <= j) - 1)

(***************************************************************************)
(* Pagination.                                                             *)
(***************************************************************************)
Max(a, b) == IF a >= b THEN a ELSE b
Min(a, b) == IF a <= b THEN a ELSE b

PageSizeOptions == {10, 20, 50, 100}
DefaultPageSize == 20

\* Mutant: floor division plus one instead of the ceiling
total_pages_floor_plus_one(len, page_size) == Max(1, len \div page_size + 1)

total_pages_of(len, page_size) == Max(1, (len + page_size - 1) \div page_size)

start_of(page, page_size) == (page - 1) * page_size
end_of(len, page, page_size) == Min(len, start_of(page, page_size) + page_size)

\* df.iloc[start:end]: the row labels of the slice
page_df(len, page, page_size) ==
    {i \in 0..(len - 1) :
        i >= start_of(page, page_size) /\ i < end_of(len, page, page_size)}

(***************************************************************************)
(* The uploaded table.  Only its length varies; the cells of row i follow  *)
(* two fixed patterns of different periods, so that every combination of   *)
(* an ASIN cell and a wholesale-image cell occurs among the first rows.    *)
(***************************************************************************)
AsinPattern ==
    <<StrCell(<<"A">>), StrCell(<<SP, "B", SP>>), NaN, StrCell(<<SP>>)>>
ImgPattern ==
    <<StrCell(<<"u">>), NaN, StrCell(<<SP>>)>>

\* str(row.get(col, "") or "").strip() of every cell of the patterns
AsinText == [k \in 1..Len(AsinPattern) |-> CellText(AsinPattern[k])]
ImgText == [k \in 1..Len(ImgPattern) |-> CellText(ImgPattern[k])]

\* Row i of df after reset_index(drop=True), columns asin_col and gross_img_col
\* as mapped in the sidebar; asin_text and img_text are what lines 239, 251
\* and 286 make of the two cells
df(i) ==
    [asin |-> AsinPattern[(i % Len(AsinPattern)) + 1],
     img |-> ImgPattern[(i % Len(ImgPattern)) + 1],
     asin_text |-> AsinText[(i % Len(AsinPattern)) + 1],
     img_text |-> ImgText[(i % Len(ImgPattern)) + 1]]

\* What the Keepa API knows: imagesCSV of a product, "" when it has none;
\* ASINs outside the catalogue come back without a product.
KeepaCatalogue ==
    (<<"A">> :> <<"x", ",", "y", ".", "p">>) @@ (<<"B">> :> <<>>)

(***************************************************************************)
(* keepa_fetch_first_images.  outcome is what the environment does to the  *)
(* call: "no_client" (get_keepa_client() is None), "raised" (api.query     *)
(* raises) or "ok".  The result records whether the function returned or   *)
(* raised, and the dictionary it returned.                                 *)
(***************************************************************************)
CleanAsins(asins) ==
    {Strip(asins[k]) : k \in {j \in 1..Len(asins) :
                                asins[j] # <<>> /\ Strip(asins[j]) # <<>>}}

AllEmpty(keys) == [a \in keys |-> <<>>]

FirstImages(keys) ==
    [a \in keys |->
        IF a \in DOMAIN KeepaCatalogue /\ Strip(KeepaCatalogue[a]) # <<>>
        THEN keepa_image_to_cdn_url(Strip(FirstField(Strip(KeepaCatalogue[a]))))
        ELSE <<>>]

\* Mutant: the exception of api.query is not caught
keepa_fetch_uncaught(asins, mp, outcome) ==
    LET keys == CleanAsins(asins)
    IN IF keys = {} THEN [returned |-> TRUE, value |-> <<>>]
       ELSE IF outcome = "no_client" THEN [returned |-> TRUE, value |-> AllEmpty(keys)]
       ELSE IF outcome = "raised" THEN [returned |-> FALSE, value |-> <<>>]
       ELSE [returned |-> TRUE, value |-> FirstImages(keys)]

keepa_fetch_first_images(asins, mp, outcome) ==
    LET keys == CleanAsins(asins)
    IN IF keys = {} THEN [returned |-> TRUE, value |-> <<>>]
       ELSE IF outcome = "no_client" THEN [returned |-> TRUE, value |-> AllEmpty(keys)]
       ELSE IF outcome = "raised" THEN [returned |-> TRUE, value |-> AllEmpty(keys)]
       ELSE [returned |-> TRUE, value |-> FirstImages(keys)]

(***************************************************************************)
(* Match state.                                                            *)
(***************************************************************************)
\* st.session_state.match_map.get(i, False)
get_match(mm, i) == IF i \in DOMAIN mm THEN mm[i] ELSE FALSE

\* st.session_state.match_map[i] = bool(v)
set_match(mm, i, v) == [j \in DOMAIN mm \cup {i} |-> IF j = i THEN v ELSE mm[j]]

\* Mutant: exports whether the row has an entry instead of the entry
ExportColumnPresence(mm, len) == [i \in 0..(len - 1) |-> i \in DOMAIN mm]

\* out["MATCH"] = [bool(match_map.get(i, False)) for i in range(len(out))]
ExportColumn(mm, len) ==
    [i \in 0..(len - 1) |-> IF i \in DOMAIN mm THEN mm[i] ELSE FALSE]

(***************************************************************************)
(* State.                                                                  *)
(***************************************************************************)
VARIABLES
    APP_PASSWORD,      \* os.getenv("APP_PASSWORD", ""), as configured
    KEEPA_KEY,         \* whether os.getenv("KEEPA_KEY", "").strip() is non-empty
    keyIdentity,       \* Streamlit build: a keyed checkbox is identified by its
                       \* key alone (TRUE) or by its key and its parameters,
                       \* value= included (FALSE)
    rerunKeepsUnseen,  \* Streamlit build: a run interrupted by st.rerun() keeps
                       \* (TRUE) or drops (FALSE) the server-side state of the
                       \* widgets it had not reached
    auth_ok,           \* st.session_state.auth_ok (absent reads as FALSE)
    match_map,         \* st.session_state.match_map (absent reads as empty)
    w_password,        \* browser: text typed in the Password field
    w_upload,          \* browser: row count of the uploaded file, or NoFile
    w_page_size,       \* browser: "Rows per page"
    w_show_amazon,     \* browser: "Show Amazon images (Keepa)"
    w_show_wholesale,  \* browser: "Show Wholesale images"
    w_page,            \* browser: the "Page" number_input it displays
    w_match,           \* browser: displayed MATCH checkboxes, id -> value
    pending,           \* TRUE when the last run ended in st.rerun()
    reached,           \* where the last run ended
    page,              \* page used by the last run to compute the window
    lookup,            \* what the Keepa batch fetch of the last run did
    img_map,           \* img_map of the last run
    view,              \* rows drawn by the last run
    exported,          \* MATCH column of the CSV built by the last run
    toggledEver,       \* history: rows whose checkbox the operator ever clicked
    lastSet,           \* history: row -> value of the operator's last click on
                       \* it since the last reset
    sinceReset,        \* history: Reset MATCH pressed, no checkbox clicked since
    submitted,         \* history: the passwords submitted with Enter
    pgLen, pgSize, pgPage, pgSeen, pgOverlap
                       \* the paginator exercised alone: table length, page
                       \* size, last page computed, rows covered so far,
                       \* whether two windows shared a row

envVars == <<APP_PASSWORD, KEEPA_KEY, keyIdentity, rerunKeepsUnseen>>
sessionVars == <<auth_ok, match_map>>
widgetVars ==
    <<w_password, w_upload, w_page_size, w_show_amazon, w_show_wholesale,
      w_page, w_match>>
runVars == <<pending, reached, page, lookup, img_map, view, exported>>
historyVars == <<toggledEver, lastSet, sinceReset, submitted>>
pgVars == <<pgLen, pgSize, pgPage, pgSeen, pgOverlap>>
appVars == <<envVars, sessionVars, widgetVars, runVars, historyVars>>
vars == <<appVars, pgVars>>

NoFile == -1
NoPageWidget == [max |-> 0, val |-> 1]
NoRows == [i \in {} |-> FALSE]
NoChecks == [id \in {} |-> FALSE]

\* Rows the operator clicks: the first row, and a row that lies on page 2
\* under ten rows per page and on page 1 under twenty.
\* Row counts of the files the operator uploads: an empty table, one that
\* fills one page of ten, one that needs three pages of ten.
ClickRows == {0, MaxRows \div 2}
RowCounts == {0, MaxRows \div 2, MaxRows}
AllRows == 0..(MaxRows - 1)

(***************************************************************************)
(* Widgets.  Streamlit keeps a widget's value under the widget's identity; *)
(* a widget function returns the stored value when one exists under that   *)
(* identity and its default otherwise.                                     *)
(***************************************************************************)
\* st.checkbox("MATCH", value=current, key=f"match_{i}")
CheckboxId(i, current) == IF keyIdentity THEN <<i, FALSE>> ELSE <<i, current>>

checkbox(store, i, current) ==
    IF CheckboxId(i, current) \in DOMAIN store
    THEN store[CheckboxId(i, current)] ELSE current

\* Mutant: the page survives a change of max_value
number_input_page_sticky(stored, total_pages) == stored.val

\* st.number_input("Page", min_value=1, max_value=total_pages, value=1, step=1):
\* no key, so max_value is part of the identity
number_input_page(stored, total_pages) ==
    IF stored.max = total_pages THEN stored.val ELSE 1

(***************************************************************************)
(* One run of the script.  in is what the run reads: the widget values the *)
(* server holds (password, enter, upload, page_size, show_amazon,          *)
(* show_wholesale, pageW, reset, wm), the session state (auth_ok, mm) and  *)
(* the outcome q of the Keepa call, should the run make one.               *)
(***************************************************************************)
\* Mutant: Enter lets any password in
require_password_any(in) ==
    LET app_pwd == Strip(APP_PASSWORD)
    IN IF app_pwd = <<>> THEN [passed |-> TRUE, rerun |-> FALSE, auth_ok |-> in.auth_ok]
       ELSE IF in.auth_ok THEN [passed |-> TRUE, rerun |-> FALSE, auth_ok |-> TRUE]
       ELSE IF in.enter
            THEN [passed |-> FALSE, rerun |-> TRUE, auth_ok |-> TRUE]
       ELSE [passed |-> FALSE, rerun |-> FALSE, auth_ok |-> FALSE]

\* require_password(): whether the script goes on, and auth_ok afterwards
require_password(in) ==
    LET app_pwd == Strip(APP_PASSWORD)
    IN IF app_pwd = <<>> THEN [passed |-> TRUE, rerun |-> FALSE, auth_ok |-> in.auth_ok]
       ELSE IF in.auth_ok THEN [passed |-> TRUE, rerun |-> FALSE, auth_ok |-> TRUE]
       ELSE IF in.enter /\ in.password = app_pwd
            THEN [passed |-> FALSE, rerun |-> TRUE, auth_ok |-> TRUE]
       ELSE [passed |-> FALSE, rerun |-> FALSE, auth_ok |-> FALSE]

\* page_asins = [str(row.get(asin_col, "") or "").strip() for ... in page_df]
page_asins(len, start, end) ==
    [k \in 1..Max(0, end - start) |-> df(start + k - 1).asin_text]

\* img_map.get(asin, "") if asin else ""
ImgUrl(imgs, asin) == IF asin # <<>> /\ asin \in DOMAIN imgs THEN imgs[asin] ELSE <<>>

\* Mid column: Amazon image
AmazonSide(show, imgs, asin) ==
    IF ~show THEN [kind |-> "info", arg |-> <<"Amazon images disabled.">>]
    ELSE IF ImgUrl(imgs, asin) # <<>> THEN [kind |-> "image", arg |-> ImgUrl(imgs, asin)]
    ELSE [kind |-> "warning", arg |-> <<"No image from Keepa for this ASIN.">>]

\* Right column: wholesale image
WholesaleSide(show, w_url) ==
    IF ~show THEN [kind |-> "info", arg |-> <<"Wholesale images disabled.">>]
    ELSE IF w_url # <<>> THEN [kind |-> "image", arg |-> w_url]
    ELSE [kind |-> "warning", arg |-> <<"Wholesale image URL is empty.">>]

\* Left column: the value the MATCH checkbox of row i returns
NewVal(in, i) == checkbox(in.wm, i, get_match(in.mm, i))

\* match_map after the render loop over the rows of the window:
\*   current = get_match(i); new_val = st.checkbox(...);
\*   if new_val != current: set_match(i, new_val)
\* The iteration for row i reads and writes index i only, so the loop is the
\* same as writing all the rows at once.
\* The rows for which the loop calls set_match
Written(in, window) == {i \in window : NewVal(in, i) # get_match(in.mm, i)}

\* Mutant: the loop runs over every checkbox the browser sent, not only over
\* the rows of the window
RenderMatchEverySent(in, window) ==
    LET sent == {id[1] : id \in DOMAIN in.wm}
    IN [j \in DOMAIN in.mm \cup Written(in, sent) |->
          IF j \in Written(in, sent)
          THEN set_match(in.mm, j, NewVal(in, j))[j] ELSE in.mm[j]]

RenderMatch(in, window) ==
    [j \in DOMAIN in.mm \cup Written(in, window) |->
        IF j \in Written(in, window)
        THEN set_match(in.mm, j, NewVal(in, j))[j] ELSE in.mm[j]]

\* The checkboxes the render loop registers, with the values they returned
RenderChecks(in, window) ==
    [id \in {CheckboxId(i, get_match(in.mm, i)) : i \in window} |->
        NewVal(in, id[1])]

RenderView(in, len, window, imgs) ==
    [i \in window |->
        LET asin == df(i).asin_text
        IN [match |-> NewVal(in, i),
            asin |-> asin,
            link |-> IF asin # <<>> THEN build_amazon_dp_url(asin, marketplace) ELSE <<>>,
            amazon |-> AmazonSide(in.show_amazon, imgs, asin),
            wholesale |-> WholesaleSide(in.show_wholesale, df(i).img_text)]]

Ended(where, in, auth) ==
    [reached |-> where, pending |-> FALSE, auth_ok |-> auth, mm |-> in.mm,
     pageW |-> NoPageWidget, page |-> 0, checks |-> NoChecks, lookup |-> "not_called",
     img_map |-> <<>>, view |-> <<>>, exported |-> <<>>]

\* total_pages, page, start, end of the run
Paging(in) ==
    LET total_pages == total_pages_of(in.upload, in.page_size)
        pg == number_input_page(in.pageW, total_pages)
    IN [total_pages |-> total_pages, page |-> pg,
        start |-> start_of(pg, in.page_size),
        end |-> end_of(in.upload, pg, in.page_size)]

\* Keepa batch fetch (for this page only): whether the fetch is made, and what
\* keepa_fetch_first_images does
KeepaBatch(in) ==
    LET p == Paging(in)
        asins == page_asins(in.upload, p.start, p.end)
        called == in.show_amazon /\ asins # <<>>
    IN IF called
       THEN [called |-> TRUE, no_asins |-> CleanAsins(asins) = {},
             fetch |-> keepa_fetch_first_images(asins, marketplace, in.q)]
       ELSE [called |-> FALSE, no_asins |-> FALSE,
             fetch |-> [returned |-> TRUE, value |-> <<>>]]

\* The script from top to bottom; batch is KeepaBatch(in)
Script(in, batch) ==
    LET gate == require_password(in)
        len == in.upload
        p == Paging(in)
        window == page_df(len, p.page, in.page_size)
        drawn == [Ended("export", in, gate.auth_ok) EXCEPT
                    !.pageW = [max |-> p.total_pages, val |-> p.page],
                    !.page = p.page]
    IN IF gate.rerun THEN [Ended("rerun", in, TRUE) EXCEPT !.pending = TRUE]
       ELSE IF ~gate.passed THEN Ended("gate", in, gate.auth_ok)
       ELSE IF len = NoFile THEN Ended("no_upload", in, gate.auth_ok)
       ELSE IF in.reset
            THEN [drawn EXCEPT !.reached = "rerun", !.pending = TRUE, !.mm = NoRows]
       ELSE IF ~batch.fetch.returned
            THEN [drawn EXCEPT !.reached = "exception", !.lookup = in.q]
       ELSE [drawn EXCEPT
               !.mm = RenderMatch(in, window),
               !.checks = RenderChecks(in, window),
               !.lookup = IF ~batch.called THEN "not_called"
                          ELSE IF batch.no_asins THEN "no_asins" ELSE in.q,
               !.img_map = batch.fetch.value,
               !.view = RenderView(in, len, window, batch.fetch.value),
               !.exported = ExportColumn(RenderMatch(in, window), len)]

(***************************************************************************)
(* Interactions.  The browser sends the values of all the widgets it       *)
(* displays with every interaction; b is that table after the interaction, *)
(* in is what the run reads.  A run that finishes (st.stop() included)     *)
(* leaves the browser with the widgets it drew, each with the value the    *)
(* browser already held for it or else the value it was drawn with; the    *)
(* state of every other widget is discarded and the widget starts from its *)
(* default when it is drawn again.  A run interrupted by st.rerun() leaves *)
(* the browser as it is.                                                   *)
(***************************************************************************)
Outcomes == IF KEEPA_KEY THEN {"no_client", "raised", "ok"} ELSE {"no_client"}

Browser ==
    [password |-> w_password, upload |-> w_upload, page_size |-> w_page_size,
     show_amazon |-> w_show_amazon, show_wholesale |-> w_show_wholesale,
     pageW |-> w_page, match |-> w_match]

Input(b, enter, reset, wm, q) ==
    [password |-> b.password, enter |-> enter, upload |-> b.upload,
     page_size |-> b.page_size, show_amazon |-> b.show_amazon,
     show_wholesale |-> b.show_wholesale, pageW |-> b.pageW, reset |-> reset,
     wm |-> wm, auth_ok |-> auth_ok, mm |-> match_map, q |-> q]

Finished(out) == ~out.pending /\ out.reached # "exception"

Run(in, b) ==
    \E batch \in {KeepaBatch(in)} : \E out \in {Script(in, batch)} :
       LET drawn == out.reached = "export" IN
       /\ auth_ok' = out.auth_ok
       /\ match_map' = out.mm
       /\ pending' = out.pending
       /\ reached' = out.reached
       /\ page' = out.page
       /\ lookup' = out.lookup
       /\ img_map' = out.img_map
       /\ view' = out.view
       /\ exported' = out.exported
       /\ w_password' = IF Finished(out) /\ out.reached # "gate" THEN <<>> ELSE b.password
       /\ w_upload' = IF Finished(out) /\ out.reached = "gate" THEN NoFile ELSE b.upload
       /\ w_page_size' = IF Finished(out) /\ ~drawn THEN DefaultPageSize ELSE b.page_size
       /\ w_show_amazon' = IF Finished(out) /\ ~drawn THEN TRUE ELSE b.show_amazon
       /\ w_show_wholesale' = IF Finished(out) /\ ~drawn THEN TRUE ELSE b.show_wholesale
       /\ w_page' = IF Finished(out) THEN out.pageW ELSE b.pageW
       /\ w_match' = IF Finished(out)
                     THEN [id \in DOMAIN out.checks |->
                             IF id \in DOMAIN b.match THEN b.match[id] ELSE out.checks[id]]
                     ELSE b.match
       /\ UNCHANGED <<envVars, pgVars>>

\* An interaction other than a click on a MATCH checkbox or on Reset MATCH
Interact(b, enter, reset) ==
    /\ ~pending
    /\ \E q \in Outcomes : Run(Input(b, enter, reset, b.match, q), b)

PasswordInputs == {<<"p">>, <<SP, "p">>}

TypePassword(p) ==
    /\ reached = "gate"
    /\ p # w_password
    /\ Interact([Browser EXCEPT !.password = p], FALSE, FALSE)
    /\ UNCHANGED historyVars

PressEnter ==
    /\ reached = "gate"
    /\ Interact(Browser, TRUE, FALSE)
    /\ submitted' = submitted \cup {w_password}
    /\ UNCHANGED <<toggledEver, lastSet, sinceReset>>

Upload(n) ==
    /\ reached \in {"no_upload", "export"}
    /\ n # w_upload
    /\ Interact([Browser EXCEPT !.upload = n], FALSE, FALSE)
    /\ UNCHANGED historyVars

ClearUpload ==
    /\ reached = "export"
    /\ Interact([Browser EXCEPT !.upload = NoFile], FALSE, FALSE)
    /\ UNCHANGED historyVars

SelectPageSize(n) ==
    /\ reached = "export"
    /\ n # w_page_size
    /\ Interact([Browser EXCEPT !.page_size = n], FALSE, FALSE)
    /\ UNCHANGED historyVars

ToggleShowAmazon ==
    /\ reached = "export"
    /\ Interact([Browser EXCEPT !.show_amazon = ~w_show_amazon], FALSE, FALSE)
    /\ UNCHANGED historyVars

ToggleShowWholesale ==
    /\ reached = "export"
    /\ Interact([Browser EXCEPT !.show_wholesale = ~w_show_wholesale], FALSE, FALSE)
    /\ UNCHANGED historyVars

\* The browser keeps the number within min_value..max_value
SetPage(n) ==
    /\ reached = "export"
    /\ n \in 1..w_page.max
    /\ n # w_page.val
    /\ Interact([Browser EXCEPT !.pageW = [max |-> w_page.max, val |-> n]], FALSE, FALSE)
    /\ UNCHANGED historyVars

\* The displayed checkbox of row i
ShownCheckbox(i) == CHOOSE id \in DOMAIN w_match : id[1] = i

ToggleMatch(i) ==
    /\ reached = "export"
    /\ \E id \in DOMAIN w_match : id[1] = i
    /\ LET id == ShownCheckbox(i)
           v == ~w_match[id]
       IN /\ Interact([Browser EXCEPT !.match[id] = v], FALSE, FALSE)
          /\ toggledEver' = toggledEver \cup {i}
          /\ lastSet' = [j \in DOMAIN lastSet \cup {i} |-> IF j = i THEN v ELSE lastSet[j]]
          /\ sinceReset' = FALSE
          /\ UNCHANGED submitted

PressReset ==
    /\ reached = "export"
    /\ Interact(Browser, FALSE, TRUE)
    /\ lastSet' = NoRows
    /\ sinceReset' = TRUE
    /\ UNCHANGED <<toggledEver, submitted>>

\* The run st.rerun() asks for: no interaction, no widget values from the
\* browser; the server reads the widget state it kept.
Rerun ==
    /\ pending
    /\ \E q \in Outcomes :
          Run(Input(Browser, FALSE, FALSE,
                    IF rerunKeepsUnseen THEN w_match ELSE NoChecks, q),
              Browser)
    /\ UNCHANGED historyVars

(***************************************************************************)
(* The session.                                                            *)
(***************************************************************************)
AppPasswords == {<<>>, <<SP>>, <<"p">>, <<SP, "p">>}

FirstInput ==
           [password |-> <<>>, enter |-> FALSE, upload |-> NoFile,
            page_size |-> DefaultPageSize, show_amazon |-> TRUE,
            show_wholesale |-> TRUE, pageW |-> NoPageWidget, reset |-> FALSE,
            wm |-> NoChecks, auth_ok |-> FALSE, mm |-> NoRows, q |-> "no_client"]

FirstRun == Script(FirstInput, KeepaBatch(FirstInput))

InitApp ==
    /\ auth_ok = FALSE
    /\ match_map = NoRows
    /\ w_password = <<>>
    /\ w_upload = NoFile
    /\ w_page_size = DefaultPageSize
    /\ w_show_amazon = TRUE
    /\ w_show_wholesale = TRUE
    /\ w_page = NoPageWidget
    /\ w_match = NoChecks
    /\ pending = FALSE
    /\ reached = FirstRun.reached
    /\ page = 0
    /\ lookup = "not_called"
    /\ img_map = <<>>
    /\ view = <<>>
    /\ exported = <<>>
    /\ toggledEver = {}
    /\ lastSet = NoRows
    /\ sinceReset = FALSE
    /\ submitted = {}

Defaults ==
    /\ APP_PASSWORD = <<>>
    /\ KEEPA_KEY = FALSE
    /\ keyIdentity = TRUE
    /\ rerunKeepsUnseen = FALSE

InitPg ==
    /\ pgLen = 0
    /\ pgSize = DefaultPageSize
    /\ pgPage = 0
    /\ pgSeen = {}
    /\ pgOverlap = FALSE

(***************************************************************************)
(* Spec: the review session of an operator, no password configured, no     *)
(* Keepa key.  The Streamlit build is any of the four.                     *)
(***************************************************************************)
Init ==
    /\ APP_PASSWORD = <<>>
    /\ KEEPA_KEY = FALSE
    /\ keyIdentity \in BOOLEAN
    /\ rerunKeepsUnseen \in BOOLEAN
    /\ InitApp
    /\ InitPg

Next ==
    \/ \E n \in RowCounts : Upload(n)
    \/ ClearUpload
    \/ \E n \in PageSizeOptions : SelectPageSize(n)
    \/ \E n \in 1..MaxRows : SetPage(n)
    \/ \E i \in ClickRows : ToggleMatch(i)
    \/ PressReset
    \/ Rerun

Spec == Init /\ [][Next]_vars

(***************************************************************************)
(* SpecGate: the password gate under every configured APP_PASSWORD, then   *)
(* the session behind it.                                                  *)
(***************************************************************************)
InitGate ==
    /\ APP_PASSWORD \in AppPasswords
    /\ KEEPA_KEY = FALSE
    /\ keyIdentity \in BOOLEAN
    /\ rerunKeepsUnseen \in BOOLEAN
    /\ InitApp
    /\ InitPg

NextGate ==
    \/ \E p \in PasswordInputs : TypePassword(p)
    \/ PressEnter
    \/ Rerun
    \/ \E n \in RowCounts : Upload(n)
    \/ \E i \in ClickRows : ToggleMatch(i)

SpecGate == InitGate /\ [][NextGate]_vars

(***************************************************************************)
(* SpecRender: what a run draws, with and without a Keepa key and under    *)
(* every outcome of the Keepa call.                                        *)
(***************************************************************************)
InitRender ==
    /\ APP_PASSWORD = <<>>
    /\ KEEPA_KEY \in BOOLEAN
    /\ keyIdentity \in BOOLEAN
    /\ rerunKeepsUnseen \in BOOLEAN
    /\ InitApp
    /\ InitPg

NextRender ==
    \/ \E n \in RowCounts : Upload(n)
    \/ \E n \in PageSizeOptions : SelectPageSize(n)
    \/ \E n \in 1..MaxRows : SetPage(n)
    \/ ToggleShowAmazon
    \/ ToggleShowWholesale

SpecRender == InitRender /\ [][NextRender]_vars

(***************************************************************************)
(* SpecPaginate: the paginator alone.  A table length and a page size are  *)
(* drawn, then the windows of pages 1, 2, ... total_pages are computed one *)
(* after the other.                                                        *)
(***************************************************************************)
\* page sizes below the ones the selectbox offers, to reach many pages
MaxSmallPageSize == 3
PaginateSizes == PageSizeOptions \cup (1..MaxSmallPageSize)

InitPaginate ==
    /\ Defaults
    /\ InitApp
    /\ pgLen \in 0..MaxPaginateRows
    /\ pgSize \in PaginateSizes
    /\ pgPage = 0
    /\ pgSeen = {}
    /\ pgOverlap = FALSE

NextWindow ==
    /\ pgPage < total_pages_of(pgLen, pgSize)
    /\ pgPage' = pgPage + 1
    /\ pgSeen' = pgSeen \cup page_df(pgLen, pgPage + 1, pgSize)
    /\ pgOverlap' = (pgOverlap \/ pgSeen \cap page_df(pgLen, pgPage + 1, pgSize) # {})
    /\ UNCHANGED <<pgLen, pgSize, appVars>>

SpecPaginate == InitPaginate /\ [][NextWindow]_vars

(***************************************************************************)
(* Properties.                                                             *)
(***************************************************************************)
\* The match state read for row i
MatchOf(i) == get_match(match_map, i)

\* The window of the last run
Window == page_df(w_upload, page, w_page_size)

\* C1: after Reset MATCH, and until the operator next clicks a checkbox,
\* the match state read for every row is false and every exported MATCH
\* value is false.
C1_ResetClearsAll ==
    sinceReset =>
        /\ \A i \in AllRows : ~MatchOf(i)
        /\ \A i \in DOMAIN exported : ~exported[i]

\* C2: the table exported by a run has exactly one MATCH value for every
\* row index 0..rowCount-1, a boolean equal to the match state of that
\* index, and it is false for every row whose checkbox the operator has
\* never clicked.
C2_ExportCoversEveryRow ==
    reached = "export" =>
        /\ DOMAIN exported = 0..(w_upload - 1)
        /\ \A i \in DOMAIN exported :
              /\ exported[i] \in BOOLEAN
              /\ exported[i] = MatchOf(i)
              /\ i \notin toggledEver => exported[i] = FALSE

\* C2 witness: an export of the full table that carries a checked row next
\* to rows never clicked, after page and page-size changes.
C2_Witness ==
    /\ reached = "export"
    /\ w_upload = MaxRows
    /\ w_page_size = 10
    /\ page = 3
    /\ exported[0]
    /\ toggledEver = {0}

\* C3: once the operator has clicked the MATCH control of row i to value
\* v, the match state read for i is v, the export of that run included, and
\* stays v until row i is clicked again or the state is reset.
C3_ToggleReadsBack ==
    \A i \in DOMAIN lastSet :
        /\ MatchOf(i) = lastSet[i]
        /\ i \in DOMAIN exported => exported[i] = lastSet[i]

\* C5: the page a run uses to compute its row window lies in 1..pageCount.
C5_PageInRange ==
    (reached = "export" \/ (pending /\ w_upload # NoFile)) =>
        /\ page >= 1
        /\ page <= total_pages_of(w_upload, w_page_size)

\* C5 witness: a run on the last of several pages.
C5_Witness ==
    /\ reached = "export"
    /\ page = 3
    /\ total_pages_of(w_upload, w_page_size) = 3

\* C6: a change of the rows-per-page setting leaves the match state read
\* for every row as it was.
C6_PageSizeKeepsMatch ==
    [][(w_page_size' # w_page_size /\ w_upload' = w_upload /\ w_upload # NoFile)
          => \A i \in AllRows : get_match(match_map', i) = MatchOf(i)]_vars

\* C10: a run changes the match state only for rows inside the window it
\* draws, or empties it on reset; the entry of every row outside the window
\* is left as it was, and every stored value is a boolean.
SameEntry(i) ==
    /\ (i \in DOMAIN match_map') = (i \in DOMAIN match_map)
    /\ i \in DOMAIN match_map => match_map'[i] = match_map[i]

C10_OnlyWindowChanges ==
    [][/\ \/ match_map' = NoRows
          \/ \A i \in AllRows \ page_df(w_upload', page', w_page_size') : SameEntry(i)
       /\ \A i \in DOMAIN match_map' : match_map'[i] \in BOOLEAN]_vars

\* C10 witness: a checked row outside the window of the last run, and a
\* checked row inside it.
C10_Witness ==
    /\ reached = "export"
    /\ 0 \notin Window
    /\ MatchOf(0)
    /\ \E i \in Window : MatchOf(i)

\* C7: when the Keepa lookup fails for a batch (no client, or the query
\* raises), the function returns "" for every non-empty ASIN of the batch,
\* nothing is raised, and the run draws every row of the page and builds
\* the export.
PageAsinTexts == {df(i).asin_text : i \in Window} \ {<<>>}

C7_LookupFailureDegrades ==
    /\ reached # "exception"
    /\ (reached = "export" /\ lookup \in {"no_client", "raised"}) =>
          /\ DOMAIN img_map = PageAsinTexts
          /\ \A a \in PageAsinTexts : img_map[a] = <<>>
          /\ DOMAIN view = Window
          /\ \A i \in Window :
                /\ view[i].match \in BOOLEAN
                /\ view[i].amazon.kind = "warning"
                /\ view[i].wholesale.kind \in {"image", "warning", "info"}
          /\ DOMAIN exported = 0..(w_upload - 1)

\* C7 witness: a page of ten rows drawn after the query raised.
C7_Witness ==
    /\ reached = "export"
    /\ lookup = "raised"
    /\ Cardinality(DOMAIN view) = 10
    /\ PageAsinTexts # {}

\* C9: a drawn row whose wholesale-image cell is missing (NaN, or a string
\* that is empty once trimmed) shows the "empty" placeholder on the
\* wholesale side, never an image, and the placeholder differs from the
\* indicator of an empty Keepa lookup.
Missing(c) == c.k = "nan" \/ (c.k = "str" /\ Strip(c.v) = <<>>)

C9_MissingShowsPlaceholder ==
    (reached = "export" /\ w_show_wholesale) =>
        \A i \in DOMAIN view :
            Missing(df(i).img) =>
                /\ view[i].wholesale.kind = "warning"
                /\ view[i].wholesale # AmazonSide(TRUE, <<>>, <<>>)

\* C8, as claimed: when APP_PASSWORD is set, nothing behind the gate happens
\* until the operator has submitted a password equal to it; when it is not
\* set the gate never blocks.
PastGate == reached \in {"no_upload", "export"} \/ w_upload # NoFile

C8_GateConfiguredPassword ==
    /\ (APP_PASSWORD # <<>> /\ PastGate) => APP_PASSWORD \in submitted
    /\ APP_PASSWORD = <<>> => reached # "gate"

\* C8, amended: the password that counts is APP_PASSWORD without its
\* surrounding blanks.  When that is non-empty, nothing behind the gate
\* happens until the operator has submitted exactly it, and until then the
\* session holds no upload, no match state, no drawn row and no export;
\* when it is empty the gate never blocks.
C8_GateTrimmedPassword ==
    /\ (Strip(APP_PASSWORD) # <<>> /\ PastGate) =>
          (auth_ok /\ Strip(APP_PASSWORD) \in submitted)
    /\ (Strip(APP_PASSWORD) # <<>> /\ Strip(APP_PASSWORD) \notin submitted) =>
          /\ reached = "gate"
          /\ ~auth_ok
          /\ w_upload = NoFile
          /\ match_map = NoRows
          /\ DOMAIN view = {}
          /\ DOMAIN exported = {}
    /\ Strip(APP_PASSWORD) = <<>> => reached # "gate"

\* C8 witness: behind the gate of a password configured with a leading
\* blank, after the untrimmed text was submitted and refused and the trimmed
\* one let the operator in, with a row checked.
C8_Witness ==
    /\ APP_PASSWORD = <<SP, "p">>
    /\ auth_ok
    /\ submitted = PasswordInputs
    /\ reached = "export"
    /\ MatchOf(0)

\* C4: pageCount = max(1, ceil(R/P)), and the windows of pages 1..pageCount
\* are pairwise disjoint and cover exactly the rows 0..R-1, each window
\* being the rows from (page-1)*P up to, not including, min(R, (page-1)*P + P).
CeilDiv(a, b) == CHOOSE n \in 0..a : n * b >= a /\ (n = 0 \/ (n - 1) * b < a)

C4_WindowsPartitionRows ==
    /\ total_pages_of(pgLen, pgSize) = Max(1, CeilDiv(pgLen, pgSize))
    /\ ~pgOverlap
    /\ pgSeen = 0..(Min(pgLen, pgPage * pgSize) - 1)
    /\ pgPage = total_pages_of(pgLen, pgSize) => pgSeen = 0..(pgLen - 1)
    /\ \A p \in 1..total_pages_of(pgLen, pgSize) :
          page_df(pgLen, p, pgSize)
              = {i \in 0..(pgLen - 1) :
                    (p - 1) * pgSize <= i /\ i < Min(pgLen, (p - 1) * pgSize + pgSize)}

\* C4 witness: all the windows of a table that needs several pages, the
\* last one partly filled, have been computed.
C4_Witness ==
    /\ pgLen = MaxPaginateRows
    /\ pgSize = 10
    /\ pgPage = total_pages_of(pgLen, pgSize)
    /\ pgPage > 1

=============================================================================
